---- MODULE Spec2Model ----
(***************************************************************************)
(* Model of server/lib/healthchecks.js: the Express middleware that runs   *)
(* every registered check against the server's own address, follows        *)
(* same-domain redirects, races each request against a timer, classifies   *)
(* the result into an Outcome and writes the passed/failed report.         *)
(*                                                                         *)
(* Strings are sequences of one-character strings, so that indexOf,        *)
(* endsWith, URL resolution and the < of Array.sort are computed.          *)
(* Wall-clock values (elapsed) are not tracked.                            *)
(***************************************************************************)
EXTENDS Integers, Sequences, FiniteSets, TLC

\* ------------------------------------------------------------------ bounds
\* Inbound requests served in one behaviour.
MaxRuns == 1
\* Timers of already settled hops that may be pending at once for one check.
StaleTimerBound == 1

\* --------------------------------------------------------- program constants
MAX_REDIRECT_COUNT == 10
REDIRECT_STATUSES == <<301, 302, 303, 307>>

\* ------------------------------------------------------------ string helpers
Min(S) == CHOOSE m \in S : \A n \in S : m <= n

startsWith(s, p) == Len(p) <= Len(s) /\ SubSeq(s, 1, Len(p)) = p

endsWith(s, p) == Len(p) <= Len(s) /\ SubSeq(s, Len(s) - Len(p) + 1, Len(s)) = p

\* String.prototype.indexOf / Array.prototype.indexOf: 0-based, -1 if absent.
indexOf(s, t) ==
  LET hits == {i \in 0..(Len(s) - Len(t)) : SubSeq(s, i + 1, i + Len(t)) = t}
  IN  IF hits = {} THEN -1 ELSE Min(hits)

arrayIndexOf(arr, x) ==
  LET hits == {i \in 0..(Len(arr) - 1) : arr[i + 1] = x}
  IN  IF hits = {} THEN -1 ELSE Min(hits)

\* The bitwise NOT of JavaScript on an integer.
BitNot(n) == 0 - (n + 1)

\* Code-unit order of the characters that occur in URLs.
Alphabet == <<".", "/", "0", "1", "2", "3", "4", "5", "6", "7", "8", "9", ":",
              "a", "b", "c", "d", "e", "f", "g", "h", "i", "j", "k", "l", "m",
              "n", "o", "p", "q", "r", "s", "t", "u", "v", "w", "x", "y", "z">>

CharCode(ch) == CHOOSE i \in 1..Len(Alphabet) : Alphabet[i] = ch

\* a < b on JavaScript strings.
RECURSIVE StrLess(_, _)
StrLess(a, b) ==
  IF b = <<>> THEN FALSE
  ELSE IF a = <<>> THEN TRUE
  ELSE IF a[1] = b[1] THEN StrLess(Tail(a), Tail(b))
  ELSE CharCode(a[1]) < CharCode(b[1])

\* Number to decimal string, as URL.format does with the port.
RECURSIVE NumToStr(_)
NumToStr(n) ==
  LET d == <<"0", "1", "2", "3", "4", "5", "6", "7", "8", "9">>
  IN  IF n < 10 THEN <<d[n + 1]>> ELSE NumToStr(n \div 10) \o <<d[(n % 10) + 1]>>

\* ----------------------------------------------------------------- literals
ProtoHttp  == <<"h", "t", "t", "p", ":">>
ProtoHttps == <<"h", "t", "t", "p", "s", ":">>
Slashes    == <<"/", "/">>
LOCALHOST  == <<"l", "o", "c", "a", "l", "h", "o", "s", "t">>
\* undefined, where a string is expected
Undefined  == <<"undefined">>

SubHost       == <<"a", ".">> \o LOCALHOST
LookAlikeHost == <<"x">> \o LOCALHOST
ExternalHost  == <<"e", ".", "c">>

PathA == <<"/", "a">>
PathB == <<"/", "b">>
UrlSub       == Slashes \o SubHost \o PathA
UrlLookAlike == Slashes \o LookAlikeHost \o PathA
UrlExternal  == ProtoHttps \o Slashes \o ExternalHost \o PathA

BodyOk == <<"o", "k">>
BodyKo == <<"k", "o">>

\* ---------------------------------------------------------------- url module
\* URL.parse(s, false, slashesDenoteHost) for the URL shapes used here:
\* [scheme:][//host[:port]][/path].  The stages pass on what they have split
\* off: protocol, then host and pathname, then hostname and port.
ParsedUrl(protocol, host, pathname, pcolon) ==
  [protocol |-> protocol, host |-> host,
   hostname |-> IF pcolon = -1 THEN host ELSE SubSeq(host, 1, pcolon),
   port |-> IF pcolon = -1 THEN <<>> ELSE SubSeq(host, pcolon + 2, Len(host)),
   pathname |-> pathname, path |-> pathname]

ParseHost(protocol, host, pathname) ==
  ParsedUrl(protocol, host, pathname, indexOf(host, <<":">>))

ParseAuthority(protocol, rest, slash) ==
  ParseHost(protocol,
            IF slash = -1 THEN rest ELSE SubSeq(rest, 1, slash),
            IF slash = -1 THEN <<"/">> ELSE SubSeq(rest, slash + 1, Len(rest)))

ParseAfterProtocol(protocol, rest, slashesDenoteHost) ==
  IF startsWith(rest, Slashes) /\ (protocol # <<>> \/ slashesDenoteHost)
  THEN ParseAuthority(protocol, SubSeq(rest, 3, Len(rest)),
                      indexOf(SubSeq(rest, 3, Len(rest)), <<"/">>))
  ELSE ParsedUrl(protocol, <<>>, rest, -1)

\* Length of the scheme of s, with its colon; 0 if s has none.
ProtocolLength(colon, fslash) ==
  IF colon > 0 /\ (fslash = -1 \/ colon < fslash) THEN colon + 1 ELSE 0

ParseFrom(s, n, slashesDenoteHost) ==
  ParseAfterProtocol(SubSeq(s, 1, n), SubSeq(s, n + 1, Len(s)), slashesDenoteHost)

URLparse(s, slashesDenoteHost) ==
  ParseFrom(s, ProtocolLength(indexOf(s, <<":">>), indexOf(s, <<"/">>)),
            slashesDenoteHost)

\* Url.prototype.resolveObject on the parsed base b and the parsed relative r.
resolveObject(b, r) ==
  IF r.host # <<>>
  THEN (IF r.protocol # <<>> THEN r.protocol ELSE b.protocol)
       \o Slashes \o r.host \o r.pathname
  ELSE b.protocol \o Slashes \o b.host
       \o (IF startsWith(r.pathname, <<"/">>) THEN r.pathname
           ELSE <<"/">> \o r.pathname)

\* URL.resolve(from, to); to has one of the shapes above.
URLresolve(from, to) == resolveObject(URLparse(from, TRUE), URLparse(to, TRUE))

\* URL.format({ protocol, hostname, port })
URLformat(protocol, hostname, port) ==
  protocol \o Slashes \o hostname \o <<":">> \o NumToStr(port)

\* ------------------------------------------------------------------- Outcome
TimerError == [code |-> "ETIMEDOUT", message |-> "ETIMEDOUT"]
TooManyRedirects == [code |-> "undefined", message |-> "too many redirects"]
UrlTypeError == [code |-> "ERR_INVALID_ARG_TYPE", message |-> "url must be a string"]

\* Outcome that takes every status code from 300 on as a failure.
OutcomeRedirectFails(args) ==
  IF "error" \in DOMAIN args /\ args.error.code = "ETIMEDOUT"
  THEN [url |-> args.url, expectedContent |-> args.expected,
        reason |-> "timeout", timeout |-> TRUE]
  ELSE IF "error" \in DOMAIN args
  THEN [url |-> args.url, expectedContent |-> args.expected,
        reason |-> "error", error |-> args.error]
  ELSE IF args.statusCode < 200 \/ args.statusCode >= 300
  THEN [url |-> args.url, expectedContent |-> args.expected,
        statusCode |-> args.statusCode, body |-> args.body,
        reason |-> "statusCode"]
  ELSE IF \E i \in 1..Len(args.expected) : indexOf(args.body, args.expected[i]) = -1
  THEN [url |-> args.url, expectedContent |-> args.expected,
        statusCode |-> args.statusCode, body |-> args.body, reason |-> "body"]
  ELSE [url |-> args.url, expectedContent |-> args.expected,
        statusCode |-> args.statusCode, body |-> args.body]

\* Outcome whose timeout branch also keeps the error.
OutcomeTimeoutKeepsError(args) ==
  IF "error" \in DOMAIN args /\ args.error.code = "ETIMEDOUT"
  THEN [url |-> args.url, expectedContent |-> args.expected,
        reason |-> "timeout", timeout |-> TRUE, error |-> args.error]
  ELSE IF "error" \in DOMAIN args
  THEN [url |-> args.url, expectedContent |-> args.expected,
        reason |-> "error", error |-> args.error]
  ELSE IF args.statusCode < 200 \/ args.statusCode >= 400
  THEN [url |-> args.url, expectedContent |-> args.expected,
        statusCode |-> args.statusCode, body |-> args.body,
        reason |-> "statusCode"]
  ELSE IF \E i \in 1..Len(args.expected) : indexOf(args.body, args.expected[i]) = -1
  THEN [url |-> args.url, expectedContent |-> args.expected,
        statusCode |-> args.statusCode, body |-> args.body, reason |-> "body"]
  ELSE [url |-> args.url, expectedContent |-> args.expected,
        statusCode |-> args.statusCode, body |-> args.body]

\* Outcome with the generic error branch tested before the timeout branch.
OutcomeErrorFirst(args) ==
  IF "error" \in DOMAIN args
  THEN [url |-> args.url, expectedContent |-> args.expected,
        reason |-> "error", error |-> args.error]
  ELSE IF args.statusCode < 200 \/ args.statusCode >= 400
  THEN [url |-> args.url, expectedContent |-> args.expected,
        statusCode |-> args.statusCode, body |-> args.body,
        reason |-> "statusCode"]
  ELSE IF \E i \in 1..Len(args.expected) : indexOf(args.body, args.expected[i]) = -1
  THEN [url |-> args.url, expectedContent |-> args.expected,
        statusCode |-> args.statusCode, body |-> args.body, reason |-> "body"]
  ELSE [url |-> args.url, expectedContent |-> args.expected,
        statusCode |-> args.statusCode, body |-> args.body]

\* new Outcome(args); args has url, expected and either error or
\* statusCode and body.  A passing Outcome has no reason property.
Outcome(args) ==
  IF "error" \in DOMAIN args /\ args.error.code = "ETIMEDOUT"
  THEN [url |-> args.url, expectedContent |-> args.expected,
        reason |-> "timeout", timeout |-> TRUE]
  ELSE IF "error" \in DOMAIN args
  THEN [url |-> args.url, expectedContent |-> args.expected,
        reason |-> "error", error |-> args.error]
  ELSE IF args.statusCode < 200 \/ args.statusCode >= 400
  THEN [url |-> args.url, expectedContent |-> args.expected,
        statusCode |-> args.statusCode, body |-> args.body,
        reason |-> "statusCode"]
  ELSE LET allMatching ==
             \A i \in 1..Len(args.expected) :
                BitNot(indexOf(args.body, args.expected[i])) # 0
       IN  IF ~allMatching
           THEN [url |-> args.url, expectedContent |-> args.expected,
                 statusCode |-> args.statusCode, body |-> args.body,
                 reason |-> "body"]
           ELSE [url |-> args.url, expectedContent |-> args.expected,
                 statusCode |-> args.statusCode, body |-> args.body]

\* outcome.reason, with "none" for the absent property
Reason(o) == IF "reason" \in DOMAIN o THEN o.reason ELSE "none"

\* The same-domain test with the dot of the suffix left out.
withinSameDomainNoDot(from, to) ==
  \/ from.hostname = to.hostname
  \/ endsWith(from.hostname, to.hostname)
  \/ endsWith(to.hostname, from.hostname)

\* --------------------------------------------------------- withinSameDomain
withinSameDomain(from, to) ==
  LET fromHost == from.hostname
      toHost   == to.hostname
  IN  \/ fromHost = toHost
      \/ endsWith(fromHost, <<".">> \o toHost)
      \/ endsWith(toHost, <<".">> \o fromHost)

\* ------------------------------------------------------------ checks registry
\* readChecks: the reduce over the check lines of the file.  A line is
\* [url, expected]; expected is "" when the line has only a URL.
RECURSIVE readChecksReduce(_, _)
readChecksReduce(memo, lines) ==
  IF lines = <<>> THEN memo
  ELSE LET check == Head(lines)
           at    == {i \in 1..Len(memo) : memo[i].url = check.url}
           memo1 == IF at = {} THEN Append(memo, [url |-> check.url, expected |-> <<>>])
                    ELSE memo
           k     == CHOOSE i \in 1..Len(memo1) : memo1[i].url = check.url
           memo2 == IF check.expected # <<>>
                    THEN [memo1 EXCEPT ![k].expected = Append(@, check.expected)]
                    ELSE memo1
       IN  readChecksReduce(memo2, Tail(lines))

\* The asserts of readChecks on a check URL.
ValidParsedURL(url) ==
  /\ url.pathname # <<>> /\ url.pathname[1] = "/"
  /\ url.protocol \in {<<>>, ProtoHttp, ProtoHttps}

ValidCheckURL(u) == ValidParsedURL(URLparse(u, FALSE))

readChecks(lines) == readChecksReduce(<<>>, lines)

\* The checks files the middleware is constructed with.
ChecksFiles ==
  { <<>>,
    << [url |-> PathB, expected |-> BodyOk], [url |-> PathA, expected |-> <<>>] >>,
    << [url |-> UrlExternal, expected |-> BodyOk],
       [url |-> UrlExternal, expected |-> <<"k">>] >> }

\* Object.keys(checks), in insertion order
Keys(reg) == [i \in 1..Len(reg) |-> reg[i].url]
KeySet(reg) == {reg[i].url : i \in 1..Len(reg)}
Expected(reg, url) == reg[CHOOSE i \in 1..Len(reg) : reg[i].url = url].expected

\* --------------------------------------------------------------- environment
LocalAddress == <<"1", "2", "7", ".", "0", ".", "0", ".", "1">>
LocalPorts == {5000}
RequestIDs == {Undefined}
UserAgent == "Mozilla/5.0 (compatible) Healthchecks http://broadly.com"

\* What an endpoint may answer.
Statuses == {199, 200, 399, 400, 503}
Bodies == {BodyOk, BodyKo}
Locations == {PathA, UrlSub, UrlLookAlike, UrlExternal, Undefined}
Responses ==
  [statusCode : {200}, headers : [location : {Undefined}], body : Bodies]
  \cup [statusCode : Statuses, headers : [location : {Undefined}], body : {BodyOk}]
  \cup [statusCode : {301}, headers : [location : Locations], body : {BodyOk}]
  \cup [statusCode : {307}, headers : [location : {PathA, UrlLookAlike}], body : Bodies]
\* What may still arrive on a request whose hop has timed out.
LateResponses ==
  { [statusCode |-> 200, headers |-> [location |-> Undefined], body |-> BodyOk],
    [statusCode |-> 301, headers |-> [location |-> PathA], body |-> BodyOk] }
TransportErrors ==
  { [code |-> "ECONNREFUSED", message |-> "connect ECONNREFUSED"],
    [code |-> "ETIMEDOUT", message |-> "connect ETIMEDOUT"] }

\* -------------------------------------------------------------------- state
VARIABLES
  checks,        \* the registry readChecks built: sequence of [url, expected]
  useJSON,       \* options.returnJSON
  runState,      \* "idle", "running", "aggregated", "responded", "rejected"
  runs,          \* inbound requests served so far
  req,           \* the inbound request: socket.encrypted, localAddress, localPort, x-request-id
  ctx,           \* protocol, hostname, port, requestID of the checkFunction call
  probe,         \* per check: the frame of the runCheck call whose get() is pending
  allChecks,     \* per check: the promise of allChecks, pending or its Outcome
  raw,           \* per check: the args the Outcome was constructed from
  openRequest,   \* per check: frame of a request still in flight after its timer rejected the hop
  staleTimers,   \* per check: pending timers of hops that are already settled
  report,        \* passedAndFailed: [passed, failed] once Promise.all resolved
  res,           \* what was written to the response
  onFailedCalls  \* the onFailed invocations of this run: [failed, res, threw]

vars == <<checks, useJSON, runState, runs, req, ctx, probe, allChecks, raw,
          openRequest, staleTimers, report, res, onFailedCalls>>

Pending    == [state |-> "pending"]
SettledHop == [state |-> "settled"]
NoProbe    == [state |-> "none"]
NoArgs     == [state |-> "none"]
NoReq      == [state |-> "none"]
NoReport   == [state |-> "none"]
NoRes      == [state |-> "none"]

URLs == KeySet(checks)

\* ----------------------------------------------------------- checkFunction
\* protocol, hostname, port of checkFunction, parsed back from the url the
\* middleware formatted.
ContextOf(parsed, requestID) ==
  [protocol |-> parsed.protocol, hostname |-> parsed.hostname,
   port |-> parsed.port, requestID |-> requestID]

CheckContext(r) ==
  ContextOf(URLparse(URLformat(IF r.encrypted THEN ProtoHttps ELSE ProtoHttp,
                               r.localAddress, r.localPort), FALSE),
            r.requestID)

\* The resolved URL without host and port replaced by the local ones.
loopbackResolveNoOverride(cx, relativeURL) ==
  URLparse(URLresolve(cx.protocol \o Slashes \o LOCALHOST \o <<"/">>, relativeURL),
           FALSE)

loopbackResolve(cx, relativeURL) ==
  [URLparse(URLresolve(cx.protocol \o Slashes \o LOCALHOST \o <<"/">>, relativeURL),
            FALSE)
     EXCEPT !.host = cx.hostname, !.port = cx.port]

\* The inbound requests the middleware may be invoked for.
InboundRequests ==
  [encrypted : BOOLEAN, localAddress : {LocalAddress}, localPort : LocalPorts,
   requestID : RequestIDs]

\* The resolver passed to runCheck, tabulated over the URLs that occur.
ResolvableURLs ==
  (Locations \ {Undefined})
  \cup UNION {{f[i].url : i \in 1..Len(f)} : f \in ChecksFiles}
resolver ==
  [cx \in {CheckContext(r) : r \in InboundRequests}, url \in ResolvableURLs |->
     loopbackResolve(cx, url)]

\* /:$/ removed
StripColon(s) == IF s # <<>> /\ s[Len(s)] = ":" THEN SubSeq(s, 1, Len(s) - 1) ELSE s

\* The request without the X-Forwarded-Proto header value's colon removed.
RequestToKeepColon(loopbackURL, requestID) ==
  [host |-> loopbackURL.host, port |-> loopbackURL.port,
   path |-> loopbackURL.path,
   headers |-> [UserAgent |-> UserAgent,
                XRequestId |-> IF requestID = Undefined THEN <<>> ELSE requestID,
                Host |-> loopbackURL.hostname,
                XForwardedProto |-> loopbackURL.protocol]]

\* The request a runCheck call issues for url.
RequestTo(loopbackURL, requestID) ==
  [host |-> loopbackURL.host, port |-> loopbackURL.port,
   path |-> loopbackURL.path,
   headers |-> [UserAgent |-> UserAgent,
                XRequestId |-> IF requestID = Undefined THEN <<>> ELSE requestID,
                Host |-> loopbackURL.hostname,
                XForwardedProto |-> StripColon(loopbackURL.protocol)]]

runCheckRequest(cx, url) == RequestTo(resolver[cx, url], cx.requestID)

\* The frame of one runCheck call: the arguments that vary.
runCheck(url, redirects) == [url |-> url, redirects |-> redirects]

\* The then-handler with a Location that is a path resolved against the URL
\* of the hop, so that it has the hop's host.
runCheckThenRelativeToHop(cx, frame, response) ==
  IF BitNot(arrayIndexOf(REDIRECT_STATUSES, response.statusCode)) # 0
  THEN IF frame.redirects >= MAX_REDIRECT_COUNT
       THEN [kind |-> "throw", error |-> TooManyRedirects]
       ELSE IF response.headers.location = Undefined
       THEN [kind |-> "throw", error |-> UrlTypeError]
       ELSE IF \/ ~startsWith(response.headers.location, Slashes)
                  /\ startsWith(response.headers.location, <<"/">>)
               \/ withinSameDomain(resolver[cx, response.headers.location],
                                   resolver[cx, frame.url])
       THEN [kind |-> "follow", url |-> response.headers.location,
             redirects |-> frame.redirects + 1]
       ELSE [kind |-> "return", response |-> response]
  ELSE [kind |-> "return", response |-> response]

\* The then-handler with the redirect count tested by > instead of >=.
runCheckThenOffByOne(cx, frame, response) ==
  IF BitNot(arrayIndexOf(REDIRECT_STATUSES, response.statusCode)) # 0
  THEN IF frame.redirects > MAX_REDIRECT_COUNT
       THEN [kind |-> "throw", error |-> TooManyRedirects]
       ELSE IF response.headers.location = Undefined
       THEN [kind |-> "throw", error |-> UrlTypeError]
       ELSE IF withinSameDomain(resolver[cx, response.headers.location],
                                resolver[cx, frame.url])
       THEN [kind |-> "follow", url |-> response.headers.location,
             redirects |-> frame.redirects + 1]
       ELSE [kind |-> "return", response |-> response]
  ELSE [kind |-> "return", response |-> response]

\* The then-handler of runCheck on the response of the frame's request.
runCheckThen(cx, frame, response) ==
  LET isRedirect == BitNot(arrayIndexOf(REDIRECT_STATUSES, response.statusCode)) # 0
  IN  IF isRedirect
      THEN LET redirectLoop == frame.redirects >= MAX_REDIRECT_COUNT
           IN  IF redirectLoop
               THEN [kind |-> "throw", error |-> TooManyRedirects]
               ELSE LET redirectURL == response.headers.location
                    IN  IF redirectURL = Undefined
                        THEN [kind |-> "throw", error |-> UrlTypeError]
                        ELSE IF withinSameDomain(resolver[cx, redirectURL],
                                                 resolver[cx, frame.url])
                        THEN [kind |-> "follow", url |-> redirectURL,
                              redirects |-> frame.redirects + 1]
                        ELSE [kind |-> "return", response |-> response]
      ELSE [kind |-> "return", response |-> response]

\* reject that settles the promise again when it is already settled.
rejectAlways(promise, error) == [state |-> "rejected", reason |-> error]

\* reject that never settles the promise.
rejectLost(promise, error) == promise

\* A promise settles once: resolve and reject of a settled promise do nothing.
resolve(promise, value) ==
  IF promise = Pending THEN [state |-> "fulfilled", value |-> value] ELSE promise

reject(promise, error) ==
  IF promise = Pending THEN [state |-> "rejected", reason |-> error] ELSE promise

\* What runCheck's promise gives checkFunction, from what its then-handler
\* gave, t: the next runCheck frame, or the args of the check's Outcome and
\* the handler that constructs it.
AfterThen(url, expected, t) ==
  IF t.kind = "follow"
  THEN [next |-> runCheck(t.url, t.redirects), args |-> NoArgs, caught |-> FALSE]
  ELSE IF t.kind = "throw"
  THEN [next |-> NoProbe, caught |-> TRUE,
        args |-> [url |-> url, expected |-> expected, error |-> t.error]]
  ELSE [next |-> NoProbe, caught |-> FALSE,
        args |-> [url |-> url, expected |-> expected,
                  statusCode |-> t.response.statusCode, body |-> t.response.body]]

\* The Outcome's url taken from the frame of the hop that ended the check.
AfterGetFrameUrl(cx, url, expected, frame, promise) ==
  IF promise.state = "rejected"
  THEN [next |-> NoProbe, caught |-> TRUE,
        args |-> [url |-> frame.url, expected |-> expected, error |-> promise.reason]]
  ELSE AfterThen(frame.url, expected, runCheckThen(cx, frame, promise.value))

\* What follows the settling of a hop's get() promise for check url.
AfterGet(cx, url, expected, frame, promise) ==
  IF promise.state = "rejected"
  THEN [next |-> NoProbe, caught |-> TRUE,
        args |-> [url |-> url, expected |-> expected, error |-> promise.reason]]
  ELSE AfterThen(url, expected, runCheckThen(cx, frame, promise.value))

\* The then-handler and the catch-handler of checkFunction: both fulfil the
\* check's promise with an Outcome.
thenHandler(args) == Outcome(args)

\* A catch-handler that throws the error on.
catchRethrow(args) == [state |-> "rejected", reason |-> args.error]

catchHandler(args) == Outcome(args)

\* Promise.all resolving with the first fulfilled promise.
PromiseAnyResolved(promises) ==
  \E c \in DOMAIN promises : "url" \in DOMAIN promises[c]

IsOutcome(p) == "url" \in DOMAIN p
IsRejected(p) == "state" \in DOMAIN p /\ p.state = "rejected"

\* Promise.all(allChecks) resolves when every promise is fulfilled, and
\* rejects as soon as one is rejected.
PromiseAllResolved(promises) ==
  \A c \in DOMAIN promises : IsOutcome(promises[c])

PromiseAllRejected(promises) ==
  \E c \in DOMAIN promises : IsRejected(promises[c])

\* Promise reactions run before the next I/O or timer callback: while the
\* aggregation or the response handler is due, no event is delivered.
MicrotasksIdle ==
  /\ ~(runState = "running" /\ PromiseAllResolved(allChecks))
  /\ ~(runState = "running" /\ PromiseAllRejected(allChecks))
  /\ runState # "aggregated"

\* ------------------------------------------------------------------ report
\* The comparer with -1 and 1 exchanged.
comparePropertyReversed(a, b) ==
  IF StrLess(a.url, b.url) THEN 1
  ELSE IF StrLess(b.url, a.url) THEN -1
  ELSE 0

compareProperty(a, b) ==
  IF StrLess(a.url, b.url) THEN -1
  ELSE IF StrLess(b.url, a.url) THEN 1
  ELSE 0

\* Array.prototype.sort(compareProperty('url'))
RECURSIVE ArraySort(_)
ArraySort(arr) ==
  IF arr = <<>> THEN <<>>
  ELSE LET rest == ArraySort(Tail(arr))
           x    == Head(arr)
           k    == Cardinality({i \in 1..Len(rest) : compareProperty(rest[i], x) < 0})
       IN  SubSeq(rest, 1, k) \o <<x>> \o SubSeq(rest, k + 1, Len(rest))

\* Status code with the passed list tested first.
statusCodePassedFirst(passed, failed) ==
  IF Len(passed) > 0 THEN 200
  ELSE IF Len(failed) > 0 THEN 500
  ELSE 404

statusCodeFromOutcomes(passed, failed) ==
  LET anyFailed == Len(failed) > 0
      anyPassed == Len(passed) > 0
  IN  IF anyFailed THEN 500
      ELSE IF anyPassed THEN 200
      ELSE 404

\* delete item.body
DeleteBody(item) == [f \in DOMAIN item \ {"body"} |-> item[f]]
removeBodyProp(outcomes) == [i \in 1..Len(outcomes) |-> DeleteBody(outcomes[i])]

\* Partition with failed selected by the error property instead of reason.
passedAndFailedByError(outcomes) ==
  [passed |-> SelectSeq(outcomes, LAMBDA o : ~("reason" \in DOMAIN o)),
   failed |-> SelectSeq(outcomes, LAMBDA o : "error" \in DOMAIN o)]

\* The reduction of checkFunction: passed and failed, in the order of
\* Object.keys(checks).
passedAndFailed(outcomes) ==
  [passed |-> SelectSeq(outcomes, LAMBDA o : ~("reason" \in DOMAIN o)),
   failed |-> SelectSeq(outcomes, LAMBDA o : "reason" \in DOMAIN o)]

\* -------------------------------------------------------------------- Init
Init ==
  /\ checks \in {readChecks(f) : f \in ChecksFiles}
  /\ \A i \in 1..Len(checks) : ValidCheckURL(checks[i].url)
  /\ useJSON \in BOOLEAN
  /\ runState = "idle"
  /\ runs = 0
  /\ req = NoReq
  /\ ctx = NoReq
  /\ probe = [c \in KeySet(checks) |-> NoProbe]
  /\ allChecks = [c \in KeySet(checks) |-> NoArgs]
  /\ raw = [c \in KeySet(checks) |-> NoArgs]
  /\ openRequest = [c \in KeySet(checks) |-> NoProbe]
  /\ staleTimers = [c \in KeySet(checks) |-> 0]
  /\ report = NoReport
  /\ res = NoRes
  /\ onFailedCalls = <<>>

\* ----------------------------------------------------------------- actions
\* The middleware is invoked for an inbound request: checkFunction issues the
\* first request of every check and sets its timer.  A new request is taken
\* once the connections of the previous run have ended.
Request(r) ==
  /\ runState \in {"idle", "responded"}
  /\ runs < MaxRuns
  /\ \A c \in URLs : openRequest[c] = NoProbe
  /\ runs' = runs + 1
  /\ req' = r
  /\ ctx' = CheckContext(req')
  /\ probe' = [c \in URLs |-> runCheck(c, 0)]
  /\ allChecks' = [c \in URLs |-> Pending]
  /\ raw' = [c \in URLs |-> NoArgs]
  /\ report' = NoReport
  /\ res' = NoRes
  /\ onFailedCalls' = <<>>
  /\ runState' = "running"
  /\ UNCHANGED <<checks, useJSON, openRequest, staleTimers>>

\* The get() promise hop of check c, whose runCheck frame is frame, is
\* settled into promise: the handlers chained on it run.
\* The handlers with the redirect count kept in one variable for all probes.
ContinueSharedCounter(c, a) ==
  /\ probe' = [d \in URLs |->
                 IF d = c THEN a.next
                 ELSE IF probe[d] # NoProbe /\ a.next # NoProbe
                 THEN [probe[d] EXCEPT !.redirects = a.next.redirects]
                 ELSE probe[d]]
  /\ allChecks' = [allChecks EXCEPT ![c] =
                     IF a.args = NoArgs THEN Pending
                     ELSE IF a.caught THEN catchHandler(a.args)
                     ELSE thenHandler(a.args)]
  /\ raw' = [raw EXCEPT ![c] = a.args]

Continue(c, a) ==
  /\ probe' = [probe EXCEPT ![c] = a.next]
  /\ allChecks' = [allChecks EXCEPT ![c] =
                     IF a.args = NoArgs THEN Pending
                     ELSE IF a.caught THEN catchHandler(a.args)
                     ELSE thenHandler(a.args)]
  /\ raw' = [raw EXCEPT ![c] = a.args]

HopSettles(c, frame, hop, promise) ==
  IF promise = hop
  THEN UNCHANGED <<probe, allChecks, raw>>
  ELSE Continue(c, AfterGet(ctx, c, Expected(checks, c), frame, promise))

\* 'end' of the response to the pending request of check c.
OnResponse(c, response) ==
  /\ MicrotasksIdle
  /\ probe[c] # NoProbe
  /\ staleTimers[c] < StaleTimerBound
  /\ staleTimers' = [staleTimers EXCEPT ![c] = @ + 1]
  /\ UNCHANGED <<checks, useJSON, runState, runs, req, ctx, openRequest, report, res,
                 onFailedCalls>>
  /\ HopSettles(c, probe[c], Pending, resolve(Pending, response))

\* 'error' of the pending request of check c.
OnError(c, error) ==
  /\ MicrotasksIdle
  /\ probe[c] # NoProbe
  /\ staleTimers[c] < StaleTimerBound
  /\ staleTimers' = [staleTimers EXCEPT ![c] = @ + 1]
  /\ UNCHANGED <<checks, useJSON, runState, runs, req, ctx, openRequest, report, res,
                 onFailedCalls>>
  /\ HopSettles(c, probe[c], Pending, reject(Pending, error))

\* The timer of the pending hop of check c fires; timers of one duration
\* fire in the order they were set, so the earlier ones have fired.  The
\* request is not aborted.
OnTimer(c) ==
  /\ MicrotasksIdle
  /\ probe[c] # NoProbe
  /\ staleTimers[c] = 0
  /\ UNCHANGED <<checks, useJSON, runState, runs, req, ctx, staleTimers, report, res,
                 onFailedCalls>>
  /\ HopSettles(c, probe[c], Pending, reject(Pending, TimerError))
  /\ openRequest' = [openRequest EXCEPT ![c] =
                       IF probe'[c] = NoProbe THEN probe[c] ELSE @]

\* One timer per check instead of one per hop: the timer an earlier hop
\* set rejects the hop that is pending when it fires.
OnStaleTimerHitsPending(c) ==
  /\ MicrotasksIdle
  /\ staleTimers[c] > 0
  /\ staleTimers' = [staleTimers EXCEPT ![c] = @ - 1]
  /\ UNCHANGED <<checks, useJSON, runState, runs, req, ctx, openRequest, report, res,
                 onFailedCalls>>
  /\ IF probe[c] # NoProbe
     THEN HopSettles(c, probe[c], Pending, reject(Pending, TimerError))
     ELSE UNCHANGED <<probe, allChecks, raw>>

\* The timer of a hop of check c that is already settled fires.
OnStaleTimer(c) ==
  /\ MicrotasksIdle
  /\ staleTimers[c] > 0
  /\ staleTimers' = [staleTimers EXCEPT ![c] = @ - 1]
  /\ UNCHANGED <<checks, useJSON, runState, runs, req, ctx, openRequest, report, res,
                 onFailedCalls>>
  /\ HopSettles(c, probe[c], SettledHop, reject(SettledHop, TimerError))

\* The response to a request whose hop was rejected by its timer arrives.
OnLateResponse(c, response) ==
  /\ MicrotasksIdle
  /\ openRequest[c] # NoProbe
  /\ openRequest' = [openRequest EXCEPT ![c] = NoProbe]
  /\ UNCHANGED <<checks, useJSON, runState, runs, req, ctx, staleTimers, report, res,
                 onFailedCalls>>
  /\ HopSettles(c, openRequest[c], SettledHop, resolve(SettledHop, response))

\* A request whose hop was rejected by its timer fails.
OnLateError(c, error) ==
  /\ MicrotasksIdle
  /\ openRequest[c] # NoProbe
  /\ openRequest' = [openRequest EXCEPT ![c] = NoProbe]
  /\ UNCHANGED <<checks, useJSON, runState, runs, req, ctx, staleTimers, report, res,
                 onFailedCalls>>
  /\ HopSettles(c, openRequest[c], SettledHop, reject(SettledHop, error))

\* Promise.all settled.  Resolved: the then-handler of checkFunction
\* partitions.  Rejected: the middleware has no handler for it, and nothing
\* is written.
Aggregate ==
  /\ runState = "running"
  /\ PromiseAllResolved(allChecks) \/ PromiseAllRejected(allChecks)
  /\ IF PromiseAllRejected(allChecks)
     THEN report' = NoReport /\ runState' = "rejected"
     ELSE /\ report' = passedAndFailed([i \in 1..Len(checks) |->
                                          allChecks[Keys(checks)[i]]])
          /\ runState' = "aggregated"
  /\ UNCHANGED <<checks, useJSON, runs, req, ctx, probe, allChecks, raw, openRequest,
                 staleTimers, res, onFailedCalls>>

\* The then-handler of the middleware with onFailed invoked before the
\* report is written: a callback that throws leaves the response unwritten.
WriteReportCallbackFirst(passed, failed, statusCode, threw) ==
  /\ report' = [passed |-> passed, failed |-> failed]
  /\ allChecks' = [c \in URLs |->
                     IF useJSON /\ IsOutcome(allChecks[c])
                     THEN DeleteBody(allChecks[c]) ELSE allChecks[c]]
  /\ onFailedCalls' = IF Len(failed) > 0
                      THEN Append(onFailedCalls,
                                  [failed |-> failed, res |-> res, threw |-> threw])
                      ELSE onFailedCalls
  /\ res' = IF Len(failed) > 0 /\ threw THEN res
            ELSE [statusCode |-> statusCode,
                  contentType |-> IF useJSON THEN "application/json" ELSE "",
                  body |-> [passed |-> passed, failed |-> failed],
                  ended |-> TRUE]

\* The then-handler of the middleware: sort, status code, write, onFailed.
\* sort and removeBodyProp change the arrays and the Outcome objects in place.
\* onFailed is the caller's function: it may throw (threw), and each of its
\* invocations is recorded with its argument and the response as written
\* when it is called.
WriteReport(passed, failed, statusCode, threw) ==
  /\ report' = [passed |-> passed, failed |-> failed]
  /\ allChecks' = [c \in URLs |->
                     IF useJSON /\ IsOutcome(allChecks[c])
                     THEN DeleteBody(allChecks[c]) ELSE allChecks[c]]
  /\ res' = [statusCode |-> statusCode,
             contentType |-> IF useJSON THEN "application/json" ELSE "",
             body |-> [passed |-> passed, failed |-> failed],
             ended |-> TRUE]
  /\ onFailedCalls' = IF Len(failed) > 0
                      THEN Append(onFailedCalls,
                                  [failed |-> failed, res |-> res', threw |-> threw])
                      ELSE onFailedCalls

Sorted(passed, failed, threw) ==
  WriteReport(IF useJSON THEN removeBodyProp(passed) ELSE passed,
              IF useJSON THEN removeBodyProp(failed) ELSE failed,
              statusCodeFromOutcomes(passed, failed), threw)

Respond ==
  /\ runState = "aggregated"
  /\ \E threw \in BOOLEAN :
       Sorted(ArraySort(report.passed), ArraySort(report.failed), threw)
  /\ runState' = "responded"
  /\ UNCHANGED <<checks, useJSON, runs, req, ctx, probe, raw, openRequest, staleTimers>>

Next ==
  \/ \E r \in InboundRequests : Request(r)
  \/ \E c \in URLs, r \in Responses : OnResponse(c, r)
  \/ \E c \in URLs, e \in TransportErrors : OnError(c, e)
  \/ \E c \in URLs : OnTimer(c)
  \/ \E c \in URLs : OnStaleTimer(c)
  \/ \E c \in URLs, r \in LateResponses : OnLateResponse(c, r)
  \/ \E c \in URLs, e \in TransportErrors : OnLateError(c, e)
  \/ Aggregate
  \/ Respond

Spec == Init /\ [][Next]_vars

\* The earliest pending timer of every check fires, and due promise
\* reactions run.
LiveSpec ==
  /\ Init /\ [][Next]_vars
  /\ \A c \in UNION {{f[i].url : i \in 1..Len(f)} : f \in ChecksFiles} :
       WF_vars(c \in URLs /\ (OnStaleTimer(c) \/ OnTimer(c)))
  /\ WF_vars(Aggregate)
  /\ WF_vars(Respond)

TypeOK ==
  /\ runState \in {"idle", "running", "aggregated", "responded", "rejected"}
  /\ runs \in 0..MaxRuns
  /\ \A c \in URLs : staleTimers[c] \in 0..StaleTimerBound

\* ================================================================== claims
\* body contains text, stated without indexOf
IsSubstring(text, body) ==
  \E i \in 0..(Len(body) - Len(text)) : SubSeq(body, i + 1, i + Len(text)) = text

\* Number of Outcomes for url in a partition
CountIn(part, url) == Cardinality({i \in 1..Len(part) : part[i].url = url})

Reported == runState \in {"aggregated", "responded"}

\* C1: once a run has partitioned its Outcomes, every registered check URL
\* has exactly one Outcome, lying in exactly one of passed and failed; an
\* Outcome is in passed iff its reason is none; the sizes of the two
\* partitions sum to the number of registered checks.
C1_Partition ==
  Reported =>
    /\ Len(report.passed) + Len(report.failed) = Len(checks)
    /\ \A url \in URLs : CountIn(report.passed, url) + CountIn(report.failed, url) = 1
    /\ \A i \in 1..Len(report.passed) : Reason(report.passed[i]) = "none"
    /\ \A i \in 1..Len(report.failed) : Reason(report.failed[i]) # "none"

C1_Witness ==
  /\ runState = "responded"
  /\ Len(report.passed) = 1
  /\ Len(report.failed) = 1

\* The decision order of the classifier, on the args of an Outcome.
DecisionOrder(args) ==
  IF "error" \in DOMAIN args
  THEN (IF args.error.code = "ETIMEDOUT" THEN "timeout" ELSE "error")
  ELSE IF args.statusCode < 200 \/ args.statusCode >= 400 THEN "statusCode"
  ELSE IF \E i \in 1..Len(args.expected) : ~IsSubstring(args.expected[i], args.body)
  THEN "body"
  ELSE "none"

\* C2: every Outcome has exactly one reason among none, error, timeout,
\* statusCode, body, and it is the one the decision order gives for the
\* result the Outcome was constructed from; a 503 response gives statusCode
\* and the expiry of the probe's timer gives timeout.
C2_Classifier ==
  \A c \in URLs :
    raw[c] # NoArgs =>
      /\ IsOutcome(allChecks[c])
      /\ Reason(allChecks[c]) \in {"none", "error", "timeout", "statusCode", "body"}
      /\ Reason(allChecks[c]) = DecisionOrder(raw[c])
      /\ ("statusCode" \in DOMAIN raw[c] /\ raw[c].statusCode = 503
            => Reason(allChecks[c]) = "statusCode")
      /\ ("error" \in DOMAIN raw[c] /\ raw[c].error = TimerError
            => Reason(allChecks[c]) = "timeout")

C2_Witness ==
  \E c, d \in URLs :
    /\ raw[c] # NoArgs /\ "statusCode" \in DOMAIN raw[c] /\ raw[c].statusCode = 503
    /\ Reason(allChecks[c]) = "statusCode"
    /\ raw[d] # NoArgs /\ "error" \in DOMAIN raw[d] /\ raw[d].error = TimerError
    /\ Reason(allChecks[d]) = "timeout"

\* C3: the status code written on the response, in HTML and in JSON mode, is
\* 500 if some Outcome failed, else 200 if some passed, else 404; with no
\* check configured it is 404 and both partitions are empty.
C3_StatusCode ==
  runState = "responded" =>
    /\ res.ended
    /\ res.statusCode =
         IF \E c \in URLs : Reason(allChecks[c]) # "none" THEN 500
         ELSE IF \E c \in URLs : Reason(allChecks[c]) = "none" THEN 200
         ELSE 404
    /\ (Len(checks) = 0 =>
          res.statusCode = 404 /\ res.body.passed = <<>> /\ res.body.failed = <<>>)
    /\ (Len(res.body.passed) >= 1 /\ Len(res.body.failed) >= 1 => res.statusCode = 500)

C3_Witness ==
  /\ runState = "responded"
  /\ useJSON
  /\ res.statusCode = 500
  /\ Len(res.body.passed) = 1
  /\ Len(res.body.failed) = 1

\* C4: under LiveSpec (timers fire), every run that has started eventually
\* has its complete report written to the response.
C4_ReportWritten ==
  (runState = "running") ~> (runState = "responded" /\ res # NoRes /\ res.ended)

\* A report is written although an endpoint has never answered.
C4_Witness ==
  /\ runState = "responded"
  /\ res # NoRes /\ res.ended
  /\ \E c \in URLs : openRequest[c] # NoProbe /\ Reason(allChecks[c]) = "timeout"

\* C5: a transport error, a timeout, too many redirects or an exception
\* raised while a redirect response is handled becomes the Outcome of the
\* check it happened to; the aggregate of the checks never rejects, and
\* the report holds an Outcome of every check.
C5_FailuresContained ==
  /\ runState # "rejected"
  /\ \A c \in URLs :
       raw[c] # NoArgs /\ "error" \in DOMAIN raw[c] =>
         /\ IsOutcome(allChecks[c])
         /\ allChecks[c].url = c
         /\ Reason(allChecks[c]) \in {"error", "timeout"}
  /\ Reported =>
       \A c \in URLs : CountIn(report.passed, c) + CountIn(report.failed, c) = 1

\* A check failed by an exception in its redirect handling, another passed.
C5_Witness ==
  /\ runState = "responded"
  /\ \E c, d \in URLs :
       /\ c # d
       /\ raw[c] # NoArgs /\ "error" \in DOMAIN raw[c] /\ raw[c].error = UrlTypeError
       /\ Reason(allChecks[d]) = "none"
       /\ CountIn(report.failed, c) = 1 /\ CountIn(report.passed, d) = 1

\* C6: the partition, the status code and the response exist only when
\* every registered check has its Outcome and no request of the run is
\* pending; while a check is still in flight nothing is reported, whatever
\* the other checks have come to.
C6_Barrier ==
  /\ (Reported \/ report # NoReport \/ res # NoRes) =>
       \A c \in URLs : IsOutcome(allChecks[c]) /\ probe[c] = NoProbe
  /\ (\E c \in URLs : allChecks[c] = Pending) =>
       report = NoReport /\ res = NoRes /\ onFailedCalls = <<>>

\* One check has failed while another is still in flight.
C6_Witness ==
  /\ runState = "running"
  /\ report = NoReport /\ res = NoRes
  /\ \E c, d \in URLs :
       /\ IsOutcome(allChecks[c]) /\ Reason(allChecks[c]) # "none"
       /\ allChecks[d] = Pending /\ probe[d] # NoProbe

IsRedirectStatus(status) == status \in {301, 302, 303, 307}

\* C7: the redirect counter of a check never exceeds 10 and grows by one
\* with each followed redirect; a redirect response received when 10
\* redirects have been followed ends the check with the error 'too many
\* redirects' and no further request; that error arises in no other way.
C7_RedirectBound ==
  [][\A c \in URLs :
       /\ probe'[c] # NoProbe => probe'[c].redirects <= 10
       /\ (probe[c] # NoProbe /\ probe'[c] # NoProbe /\ probe'[c] # probe[c])
            => probe'[c].redirects = probe[c].redirects + 1
       /\ \A r \in Responses :
            (IsRedirectStatus(r.statusCode) /\ probe[c] # NoProbe
               /\ probe[c].redirects = 10 /\ OnResponse(c, r))
            => /\ probe'[c] = NoProbe
               /\ IsOutcome(allChecks'[c])
               /\ Reason(allChecks'[c]) = "error"
               /\ allChecks'[c].error.message = "too many redirects"
       /\ (raw'[c] # raw[c] /\ raw'[c] # NoArgs /\ "error" \in DOMAIN raw'[c]
             /\ raw'[c].error.message = "too many redirects")
            => probe[c] # NoProbe /\ probe[c].redirects = 10
    ]_vars

C7_Witness ==
  \E c \in URLs :
    /\ raw[c] # NoArgs /\ "error" \in DOMAIN raw[c]
    /\ raw[c].error = TooManyRedirects
    /\ Reason(allChecks[c]) = "error"
    /\ probe[c] = NoProbe

\* a ends with a dot followed by b
IsDotSubdomain(a, b) ==
  \E k \in 1..Len(a) : SubSeq(a, k, Len(a)) = <<".">> \o b

SpecSameDomain(a, b) == a = b \/ IsDotSubdomain(a, b) \/ IsDotSubdomain(b, a)

LogicalHost(url) == resolver[ctx, url].hostname

\* Whether the logical host of location lies outside the domain of the
\* logical host of url, for the resolver of context cx.
CrossDomain ==
  [cx \in {CheckContext(r) : r \in InboundRequests},
   url \in ResolvableURLs, location \in ResolvableURLs |->
     ~SpecSameDomain(resolver[cx, location].hostname, resolver[cx, url].hostname)]

\* A redirect response r to the pending request of check c whose Location
\* lies outside the domain of the hop's logical host.
CrossDomainRedirect(c, r) ==
  /\ IsRedirectStatus(r.statusCode)
  /\ r.headers.location # Undefined
  /\ probe[c] # NoProbe
  /\ CrossDomain[ctx, probe[c].url, r.headers.location]
  /\ OnResponse(c, r)

ResponseArgs(c, r) ==
  [url |-> c, expected |-> Expected(checks, c),
   statusCode |-> r.statusCode, body |-> r.body]

\* C8 as claimed: after a cross-domain redirect response no further request
\* is issued and the redirect response is the basis of the Outcome.
C8_Original ==
  [][\A c \in URLs : \A r \in Responses :
       CrossDomainRedirect(c, r)
         => probe'[c] = NoProbe /\ raw'[c] = ResponseArgs(c, r)
    ]_vars

\* C8 amended: after a cross-domain redirect response no further request
\* is issued; the redirect response is the basis of the Outcome when fewer
\* than 10 redirects have been followed, and otherwise the Outcome is the
\* error 'too many redirects'.
C8_RedirectSafety ==
  [][\A c \in URLs : \A r \in Responses :
       CrossDomainRedirect(c, r)
         => /\ probe'[c] = NoProbe
            /\ IsOutcome(allChecks'[c])
            /\ IF probe[c].redirects < 10
               THEN raw'[c] = ResponseArgs(c, r)
               ELSE "error" \in DOMAIN raw'[c] /\ raw'[c].error = TooManyRedirects
    ]_vars

\* An unfollowed redirect response is the basis of an Outcome.
C8_Witness ==
  \E c \in URLs :
    /\ raw[c] # NoArgs /\ "statusCode" \in DOMAIN raw[c]
    /\ IsRedirectStatus(raw[c].statusCode)
    /\ probe[c] = NoProbe

\* C9: the first of response, transport error and timer expiry decides a
\* hop.  The timer firing on a pending hop gives the timeout condition, and
\* a result is the timeout condition, a response or a transport error only
\* by the event of that timer, that response or that error on the pending
\* hop.  An event that arrives for a settled hop (a late response or error
\* after the timeout, the timer after a response) changes neither the hop
\* nor the check's Outcome, and constructs no second Outcome.
C9_TimeoutRace ==
  [][\A c \in URLs :
       /\ OnTimer(c)
            => /\ IsOutcome(allChecks'[c])
               /\ Reason(allChecks'[c]) = "timeout"
               /\ raw'[c].error = TimerError
       /\ (raw'[c] # raw[c] /\ "error" \in DOMAIN raw'[c])
            => \/ raw'[c].error = TimerError /\ OnTimer(c)
               \/ raw'[c].error \in TransportErrors /\ OnError(c, raw'[c].error)
               \/ raw'[c].error \in {TooManyRedirects, UrlTypeError}
       /\ (raw'[c] # raw[c] /\ "statusCode" \in DOMAIN raw'[c])
            => \E r \in Responses :
                 raw'[c] = ResponseArgs(c, r) /\ OnResponse(c, r)
       /\ (IsOutcome(allChecks[c]) /\ runs' = runs)
            => /\ raw'[c] = raw[c]
               /\ IsOutcome(allChecks'[c])
               /\ Reason(allChecks'[c]) = Reason(allChecks[c])
       /\ OnStaleTimer(c) => probe'[c] = probe[c] /\ allChecks'[c] = allChecks[c]
    ]_vars

\* A check timed out, and the response or error of its request came later.
C9_Witness ==
  \E c \in URLs :
    /\ raw[c] # NoArgs /\ "error" \in DOMAIN raw[c] /\ raw[c].error = TimerError
    /\ Reason(allChecks[c]) = "timeout"
    /\ openRequest[c] = NoProbe

\* An I/O or timer event of check d
CheckEvent(d) ==
  \/ \E r \in Responses : OnResponse(d, r)
  \/ \E e \in TransportErrors : OnError(d, e)
  \/ OnTimer(d)
  \/ OnStaleTimer(d)
  \/ \E r \in LateResponses : OnLateResponse(d, r)
  \/ \E e \in TransportErrors : OnLateError(d, e)

\* C10: no event of a check changes anything of another check: its runCheck
\* frame, its promise and Outcome, the result the Outcome was constructed
\* from, its open request and timers; the registry and the context the
\* probes read do not change during a run, and aggregation and report leave
\* reason and result of every Outcome as they are.
C10_Isolation ==
  [][/\ \A d \in URLs :
          CheckEvent(d)
            => \A c \in URLs \ {d} :
                 /\ probe'[c] = probe[c]
                 /\ allChecks'[c] = allChecks[c]
                 /\ raw'[c] = raw[c]
                 /\ openRequest'[c] = openRequest[c]
                 /\ staleTimers'[c] = staleTimers[c]
     /\ checks' = checks
     /\ runs' = runs => ctx' = ctx /\ req' = req
     /\ (Aggregate \/ Respond)
          => /\ raw' = raw
             /\ \A c \in URLs : Reason(allChecks'[c]) = Reason(allChecks[c])
    ]_vars

\* One check has passed while the endpoint of another has never answered.
C10_Witness ==
  \E c, d \in URLs :
    /\ c # d
    /\ IsOutcome(allChecks[c]) /\ Reason(allChecks[c]) = "none"
    /\ IsOutcome(allChecks[d]) /\ Reason(allChecks[d]) = "timeout"
    /\ openRequest[d] # NoProbe

\* C11: onFailed is invoked exactly once in a run if the failed partition is
\* non-empty and not at all otherwise (all passed, or no checks), never
\* before the handler has run; its argument is the failed partition, and
\* at its invocation the response is written and ended with the status code
\* and body of the report, which are the same whether or not it throws.
C11_OnFailed ==
  /\ runState # "responded" => onFailedCalls = <<>>
  /\ runState = "responded" =>
       /\ Len(onFailedCalls) = (IF Len(report.failed) > 0 THEN 1 ELSE 0)
       /\ res # NoRes /\ res.ended
       /\ res.statusCode = statusCodeFromOutcomes(report.passed, report.failed)
       /\ res.body = report
       /\ \A i \in 1..Len(onFailedCalls) :
            /\ onFailedCalls[i].failed = report.failed
            /\ onFailedCalls[i].res = res

\* onFailed was called and threw; the report is written.
C11_Witness ==
  /\ runState = "responded"
  /\ Len(onFailedCalls) = 1
  /\ onFailedCalls[1].threw
  /\ Len(onFailedCalls[1].failed) > 0
  /\ res # NoRes /\ res.ended /\ res.statusCode = 500

\* part is in strictly ascending order of url
AscendingByUrl(part) ==
  \A i, j \in 1..Len(part) : i < j => StrLess(part[i].url, part[j].url)

\* The check URLs whose result gives (passes = TRUE) or does not give the
\* reason none.
UrlsWith(passes) ==
  {c \in URLs : (DecisionOrder(raw[c]) = "none") = passes}

\* C12: in the written report both partitions are in ascending order of
\* url, and the (url, reason) pairs of each are a function of the per-check
\* results alone: passed holds the URLs whose result gives reason none,
\* failed the others with the reason of their result.  Being sorted with no
\* two equal urls, each partition is then the same sequence whatever the
\* order in which the probes completed.
C12_Deterministic ==
  runState = "responded" =>
    /\ AscendingByUrl(report.passed)
    /\ AscendingByUrl(report.failed)
    /\ {report.passed[i].url : i \in 1..Len(report.passed)} = UrlsWith(TRUE)
    /\ {report.failed[i].url : i \in 1..Len(report.failed)} = UrlsWith(FALSE)
    /\ \A i \in 1..Len(report.failed) :
         Reason(report.failed[i]) = DecisionOrder(raw[report.failed[i].url])
    /\ res.body = report

\* Two checks passed, and the report lists them in the other order than the
\* registry.
C12_Witness ==
  /\ runState = "responded"
  /\ Len(report.passed) = 2
  /\ report.passed[1].url = checks[2].url
  /\ report.passed[2].url = checks[1].url

\* C13: the url of the Outcome of a check, and of the result it was
\* constructed from, is the registered check URL, whatever URL the hop that
\* ended the check requested and however many redirects were followed; the
\* reported Outcomes carry these urls.
C13_OriginalUrl ==
  /\ \A c \in URLs :
       IsOutcome(allChecks[c]) => allChecks[c].url = c /\ raw[c].url = c
  /\ Reported =>
       \A i \in 1..Len(report.passed) \cup 1..Len(report.failed) :
         /\ i <= Len(report.passed) =>
              /\ report.passed[i].url \in URLs
              /\ Reason(allChecks[report.passed[i].url]) = "none"
         /\ i <= Len(report.failed) =>
              /\ report.failed[i].url \in URLs
              /\ Reason(allChecks[report.failed[i].url]) = Reason(report.failed[i])

\* The check /b followed 10 redirects, none of them to /b, and its Outcome
\* is recorded under /b.
C13_Witness ==
  /\ PathB \in URLs
  /\ IsOutcome(allChecks[PathB])
  /\ allChecks[PathB].url = PathB
  /\ "error" \in DOMAIN raw[PathB] /\ raw[PathB].error = TooManyRedirects

\* C14: after a hop has settled nothing of the loser of its race remains:
\* no check has a request in flight whose hop the timer has rejected, and no
\* check has a pending timer of a hop that a response or an error settled.
C14_LoserCancelled ==
  \A c \in URLs : openRequest[c] = NoProbe /\ staleTimers[c] = 0

\* The URLs a request is issued for, with the host each declares; a URL
\* that is a path declares none.
DeclaredHost(url) ==
  IF url = UrlSub THEN SubHost
  ELSE IF url = UrlLookAlike THEN LookAlikeHost
  ELSE IF url = UrlExternal THEN ExternalHost
  ELSE <<>>

\* The request of the pending hop of check c
PendingRequest(c) == runCheckRequest(ctx, probe[c].url)

\* C15: the request of every pending hop, first or after a followed
\* redirect, for a path and for a URL with a host of its own, goes to the
\* local address and port of the inbound request; its Host header is the
\* host the URL declares, and localhost when the URL is a path.
C15_Loopback ==
  \A c \in URLs :
    probe[c] # NoProbe =>
      /\ PendingRequest(c).host = req.localAddress
      /\ PendingRequest(c).port = NumToStr(req.localPort)
      /\ PendingRequest(c).headers.Host =
           (IF DeclaredHost(probe[c].url) = <<>> THEN LOCALHOST
            ELSE DeclaredHost(probe[c].url))
      /\ PendingRequest(c).headers.Host # req.localAddress

\* A followed redirect to a URL on a.localhost is requested from the local
\* address.
C15_Witness ==
  \E c \in URLs :
    /\ probe[c] # NoProbe
    /\ probe[c].redirects > 0
    /\ probe[c].url = UrlSub
    /\ PendingRequest(c).host = LocalAddress
    /\ PendingRequest(c).headers.Host = SubHost

\* The protocol of the inbound request, as X-Forwarded-Proto names it
InboundProto == IF req.encrypted THEN <<"h", "t", "t", "p", "s">> ELSE <<"h", "t", "t", "p">>

\* The scheme url declares; none for a path and for a URL beginning with //
DeclaredScheme(url) ==
  IF url = UrlExternal THEN <<"h", "t", "t", "p", "s">> ELSE <<>>

\* C16 as claimed: the X-Forwarded-Proto header of the request of every
\* pending hop is the protocol of the inbound request.
C16_Original ==
  \A c \in URLs :
    probe[c] # NoProbe => PendingRequest(c).headers.XForwardedProto = InboundProto

\* C16 amended: the X-Forwarded-Proto header of the request of every pending
\* hop is the scheme the hop's URL declares, and the protocol of the inbound
\* request when the URL declares none.
C16_ForwardedProto ==
  \A c \in URLs :
    probe[c] # NoProbe =>
      PendingRequest(c).headers.XForwardedProto =
        (IF DeclaredScheme(probe[c].url) = <<>> THEN InboundProto
         ELSE DeclaredScheme(probe[c].url))

\* The inbound request is plain http and a hop requests an https URL.
C16_Witness ==
  \E c \in URLs :
    /\ probe[c] # NoProbe
    /\ ~req.encrypted
    /\ probe[c].url = UrlExternal
    /\ PendingRequest(c).headers.XForwardedProto = <<"h", "t", "t", "p", "s">>

\* The check c ended with a response / with an error of the transport that
\* is not a timeout / with an error whose code is ETIMEDOUT.
ResponseReceived(c) == "statusCode" \in DOMAIN raw[c]
TransportFailure(c) ==
  /\ "error" \in DOMAIN raw[c]
  /\ raw[c].error \in TransportErrors
  /\ raw[c].error.code # "ETIMEDOUT"
TimedOut(c) == "error" \in DOMAIN raw[c] /\ raw[c].error.code = "ETIMEDOUT"

\* C17 as claimed: in every Outcome statusCode and body are present iff a
\* response was received, which is iff the reason is none, statusCode or
\* body; error is present iff the reason is error, as it is after a
\* transport error other than a timeout; a timeout Outcome has none of the
\* three, and every error with code ETIMEDOUT gives reason timeout.
C17_Original ==
  \A c \in URLs :
    IsOutcome(allChecks[c]) =>
      /\ ("statusCode" \in DOMAIN allChecks[c]) = ResponseReceived(c)
      /\ ("body" \in DOMAIN allChecks[c]) = ResponseReceived(c)
      /\ ResponseReceived(c) = (Reason(allChecks[c]) \in {"none", "statusCode", "body"})
      /\ ("error" \in DOMAIN allChecks[c]) = (Reason(allChecks[c]) = "error")
      /\ TransportFailure(c) => "error" \in DOMAIN allChecks[c]
      /\ Reason(allChecks[c]) = "timeout" =>
           DOMAIN allChecks[c] \cap {"error", "statusCode", "body"} = {}
      /\ TimedOut(c) => Reason(allChecks[c]) = "timeout"

\* The JSON report has been written: removeBodyProp has run on the Outcomes
BodyRemoved == useJSON /\ runState = "responded"

\* C17 amended: statusCode is present iff a response was received, which is
\* iff the reason is none, statusCode or body; body is present iff a
\* response was received and the JSON report has not removed it; error is
\* present iff the reason is error, which is iff the check ended with an
\* error whose code is not ETIMEDOUT (of the transport, or thrown on a
\* redirect response); a timeout Outcome has none of the three, and every
\* error with code ETIMEDOUT gives reason timeout.
C17_FieldPresence ==
  \A c \in URLs :
    IsOutcome(allChecks[c]) =>
      /\ ("statusCode" \in DOMAIN allChecks[c]) = ResponseReceived(c)
      /\ ("body" \in DOMAIN allChecks[c]) = (ResponseReceived(c) /\ ~BodyRemoved)
      /\ ResponseReceived(c) = (Reason(allChecks[c]) \in {"none", "statusCode", "body"})
      /\ ("error" \in DOMAIN allChecks[c]) = (Reason(allChecks[c]) = "error")
      /\ ("error" \in DOMAIN allChecks[c])
           = ("error" \in DOMAIN raw[c] /\ raw[c].error.code # "ETIMEDOUT")
      /\ TransportFailure(c) => "error" \in DOMAIN allChecks[c]
      /\ Reason(allChecks[c]) = "timeout" =>
           DOMAIN allChecks[c] \cap {"error", "statusCode", "body"} = {}
      /\ TimedOut(c) => Reason(allChecks[c]) = "timeout"

\* A JSON report with an Outcome of a response, its body removed, and an
\* Outcome of a transport error with code ETIMEDOUT, reported as timeout.
C17_Witness ==
  /\ BodyRemoved
  /\ \E c, d \in URLs :
       /\ ResponseReceived(c)
       /\ "statusCode" \in DOMAIN allChecks[c] /\ ~("body" \in DOMAIN allChecks[c])
       /\ TimedOut(d) /\ raw[d].error \in TransportErrors
       /\ Reason(allChecks[d]) = "timeout"
       /\ ~("error" \in DOMAIN allChecks[d])

\* C18: the timer of an earlier hop of a check, firing while a later hop is
\* pending, leaves that hop pending and the check without Outcome; a check
\* comes to the timeout Outcome only by the timer of its pending hop, which
\* fires after all timers set before it, or by a transport error whose code
\* is ETIMEDOUT, so never while its hops end with responses; the pending
\* hop is at most the 11th request of its check.
C18_TimeoutPerHop ==
  [][\A c \in URLs :
       /\ (OnStaleTimer(c) /\ probe[c] # NoProbe)
            => /\ probe'[c] = probe[c]
               /\ allChecks'[c] = Pending
               /\ raw'[c] = NoArgs
       /\ (allChecks[c] = Pending /\ IsOutcome(allChecks'[c])
             /\ Reason(allChecks'[c]) = "timeout")
            => \/ staleTimers[c] = 0 /\ OnTimer(c)
               \/ raw'[c].error \in TransportErrors /\ OnError(c, raw'[c].error)
       /\ probe'[c] # NoProbe => probe'[c].redirects + 1 <= 11
    ]_vars

\* The second followed redirect of a check is pending while a timer of an
\* earlier hop of the check is still to fire.
C18_Witness ==
  \E c \in URLs :
    /\ probe[c] # NoProbe
    /\ probe[c].redirects = 2
    /\ staleTimers[c] = StaleTimerBound
    /\ allChecks[c] = Pending

\* The reason the expected fragments of check c give for the body of r
FragmentReason(c, r) ==
  IF \A i \in 1..Len(Expected(checks, c)) : IsSubstring(Expected(checks, c)[i], r.body)
  THEN "none" ELSE "body"

\* C19 as claimed: a redirect response with a cross-domain Location gives
\* its check an Outcome whose reason is none if every expected fragment
\* occurs in the body of that response and body otherwise, never statusCode.
C19_Original ==
  [][\A c \in URLs : \A r \in Responses :
       CrossDomainRedirect(c, r)
         => /\ IsOutcome(allChecks'[c])
            /\ Reason(allChecks'[c]) = FragmentReason(c, r)
    ]_vars

\* C19 amended: a redirect response with a cross-domain Location, received
\* when fewer than 10 redirects have been followed, gives its check an
\* Outcome with the status code of that response, whose reason is none if
\* every expected fragment occurs in the body of that response and body
\* otherwise, never statusCode; received after 10 followed redirects it
\* gives the reason error.
C19_RedirectClassified ==
  [][\A c \in URLs : \A r \in Responses :
       CrossDomainRedirect(c, r)
         => /\ IsOutcome(allChecks'[c])
            /\ IF probe[c].redirects < 10
               THEN /\ Reason(allChecks'[c]) = FragmentReason(c, r)
                    /\ Reason(allChecks'[c]) # "statusCode"
                    /\ allChecks'[c].statusCode = r.statusCode
                    /\ Expected(checks, c) = <<>> => Reason(allChecks'[c]) = "none"
               ELSE Reason(allChecks'[c]) = "error"
    ]_vars

\* An unfollowed redirect response made a check without expected fragments
\* pass, and another made a check fail with reason body.
C19_Witness ==
  \E c, d \in URLs :
    /\ Expected(checks, c) = <<>>
    /\ ResponseReceived(c) /\ IsRedirectStatus(raw[c].statusCode)
    /\ IsOutcome(allChecks[c]) /\ Reason(allChecks[c]) = "none"
    /\ ResponseReceived(d) /\ IsRedirectStatus(raw[d].statusCode)
    /\ IsOutcome(allChecks[d]) /\ Reason(allChecks[d]) = "body"

\* A Location that is a path
PathOnly(location) ==
  startsWith(location, <<"/">>) /\ ~startsWith(location, Slashes)

\* The logical host of the pending hop of check c is localhost or ends with
\* .localhost
HopOnLocalhost(c) ==
  \/ DeclaredHost(probe[c].url) \in {<<>>, LOCALHOST}
  \/ IsDotSubdomain(DeclaredHost(probe[c].url), LOCALHOST)

\* A redirect response r to the pending request of check c whose Location
\* is a path.
PathOnlyRedirect(c, r) ==
  /\ IsRedirectStatus(r.statusCode)
  /\ r.headers.location # Undefined
  /\ PathOnly(r.headers.location)
  /\ probe[c] # NoProbe
  /\ OnResponse(c, r)

\* C20 as claimed: a Location that is a path has the logical host localhost;
\* the redirect is followed, with a request whose Host is localhost, iff
\* the hop's logical host is localhost or a dot-subdomain of it, and
\* otherwise the redirect response is the final result.
C20_Original ==
  [][\A c \in URLs : \A r \in Responses :
       PathOnlyRedirect(c, r)
         => /\ LogicalHost(r.headers.location) = LOCALHOST
            /\ IF HopOnLocalhost(c)
               THEN /\ probe'[c] = runCheck(r.headers.location, probe[c].redirects + 1)
                    /\ runCheckRequest(ctx, probe'[c].url).headers.Host = LOCALHOST
               ELSE probe'[c] = NoProbe /\ raw'[c] = ResponseArgs(c, r)
    ]_vars

\* C20 amended: a Location that is a path has the logical host localhost;
\* while fewer than 10 redirects have been followed the redirect is
\* followed, with a request whose Host is localhost, iff the hop's logical
\* host is localhost or a dot-subdomain of it, and otherwise the redirect
\* response is the final result; after 10 followed redirects it is not
\* followed and the result is the error 'too many redirects'.
C20_PathOnlyLocation ==
  [][\A c \in URLs : \A r \in Responses :
       PathOnlyRedirect(c, r)
         => /\ LogicalHost(r.headers.location) = LOCALHOST
            /\ IF probe[c].redirects >= 10
               THEN /\ probe'[c] = NoProbe
                    /\ "error" \in DOMAIN raw'[c] /\ raw'[c].error = TooManyRedirects
               ELSE IF HopOnLocalhost(c)
               THEN /\ probe'[c] = runCheck(r.headers.location, probe[c].redirects + 1)
                    /\ runCheckRequest(ctx, probe'[c].url).headers.Host = LOCALHOST
               ELSE probe'[c] = NoProbe /\ raw'[c] = ResponseArgs(c, r)
    ]_vars

\* The check /b has followed a redirect whose Location is the path /a.
C20_Witness ==
  /\ PathB \in URLs
  /\ probe[PathB] = runCheck(PathA, 1)
  /\ PathOnly(probe[PathB].url)
  /\ runCheckRequest(ctx, PathA).headers.Host = LOCALHOST

====
